---- MODULE Spec2Model ----
(***************************************************************************)
(* Model of gravity_sand.ino: a sand hourglass animated on two 8x8 panels. *)
(* One cycle drains the 64 cells of maskX in the order built by            *)
(* buildOrderDiagonal, one grain at a time; each grain falls from the neck *)
(* cell (7,7) over the settled cells yStatic until it cannot move.         *)
(*                                                                         *)
(* Time.  The sketch reads millis() and only ever uses the differences     *)
(* now - lastFlipMs (checkFlip) and now - lastStepMs (loop).  The model    *)
(* keeps these two differences, sinceFlipMs and sinceStepMs, in            *)
(* milliseconds, saturated at MaxElapsedMs, which is above both values     *)
(* they are compared with, so every comparison has the value it has in the *)
(* sketch (barring the 2^32 ms wrap of millis(), which is not modelled).   *)
(*                                                                         *)
(* stepCalls is a history variable, not a variable of the sketch: the      *)
(* number of stepAnimation calls of the present cycle that found it        *)
(* unfinished.  No action reads it.                                        *)
(***************************************************************************)
EXTENDS Integers, Sequences, FiniteSets

VARIABLES
    pc,              \* "setup" | "update" | "checkFlip" | "timer"
    topToBottom, lastGravity, sinceFlipMs,
    targetMs, stepIntervalMs, sinceStepMs, finished,
    maskX, maskY, yStatic,
    grainActive, grRow, grCol, sideToggle,
    orderRow, orderCol, grainIndex,
    topHoleActive, holeRow, holeCol,
    topFrame, botFrame,  \* last frame written to TOP_ADDR / BOT_ADDR
    stepCalls            \* history: stepAnimation calls of this cycle

vars == << pc, topToBottom, lastGravity, sinceFlipMs, targetMs, stepIntervalMs,
           sinceStepMs, finished, maskX, maskY, yStatic, grainActive, grRow,
           grCol, sideToggle, orderRow, orderCol, grainIndex, topHoleActive,
           holeRow, holeCol, topFrame, botFrame, stepCalls >>

----------------------------------------------------------------------------
(* Program constants                                                       *)

TOP_ROT_DEG == 90
BOT_ROT_DEG == 270
NECK_ROW == 7
NECK_COL == 7
SAND_R == 0
SAND_G == 255
SAND_B == 0
ACC_THRESHOLD_LOW == -25
ACC_THRESHOLD_HIGH == 25
FLIP_DEBOUNCE_MS == 800
GridSize == 8
OrderLen == 64
FramesPerGrain == 10
ToneDelayMs == 80

(* Bounds and input sets of the model                                      *)

MaxElapsedMs == 1000
\* time one pass of loop() takes before checkFlip reads millis()
TickMs == {360, 400, 420}
\* millis() when setup() reaches startNewCycle (after calcGyroOffsets)
BootMs == {3000}
\* (angleX, angleY) pairs the sensor reports: one per branch of getGravity
Angles == { <<0, -30>>, <<30, 0>>, <<0, 30>>, <<-30, 0>>, <<0, 0>> }
\* analogRead(POT_TIME_PIN) values
PotReadings == {150, 700}

Idx == 0 .. (GridSize - 1)
Cells == Idx \X Idx

Min(a, b) == IF a < b THEN a ELSE b
Saturate(t) == Min(t, MaxElapsedMs)

----------------------------------------------------------------------------
(* uint8_t bit operations                                                  *)

\* (b & (1 << c)) != 0
Bit(b, c) == (b \div (2 ^ c)) % 2 = 1
\* b &= ~(1 << c)
ClearBit(b, c) == IF Bit(b, c) THEN b - 2 ^ c ELSE b
\* b |= (1 << c)
SetBit(b, c) == IF Bit(b, c) THEN b ELSE b + 2 ^ c

\* the C remainder, which truncates towards zero
CRem(a, b) == IF a >= 0 THEN a % b ELSE 0 - ((0 - a) % b)

----------------------------------------------------------------------------
(* rotate8: <<rx, ry>> for (x, y) rotated by deg                            *)

NormDeg(deg) == CRem(CRem(deg, 360) + 360, 360)

\* mutant: 8 - y instead of 7 - y in the 90 degree case
rotate8_OffByOne(x, y, deg) ==
    LET d == NormDeg(deg)
    IN  IF d = 0 THEN << x, y >>
        ELSE IF d = 90 THEN << 8 - y, x >>
        ELSE IF d = 180 THEN << 7 - x, 7 - y >>
        ELSE IF d = 270 THEN << y, 7 - x >>
        ELSE << x, y >>

rotate8(x, y, deg) ==
    LET d == NormDeg(deg)
    IN  IF d = 0 THEN << x, y >>
        ELSE IF d = 90 THEN << 7 - y, x >>
        ELSE IF d = 180 THEN << 7 - x, 7 - y >>
        ELSE IF d = 270 THEN << y, 7 - x >>
        ELSE << x, y >>

\* the uint8_t whose bit c is set iff on[c]
Byte(on) ==
    (IF on[0] THEN 1 ELSE 0) + (IF on[1] THEN 2 ELSE 0)
    + (IF on[2] THEN 4 ELSE 0) + (IF on[3] THEN 8 ELSE 0)
    + (IF on[4] THEN 16 ELSE 0) + (IF on[5] THEN 32 ELSE 0)
    + (IF on[6] THEN 64 ELSE 0) + (IF on[7] THEN 128 ELSE 0)

\* applyRotation: dst starts at 0 and, for every set bit (r, c) of src, gets
\* bit rx of dst[ry] set, <<rx, ry>> being rotate8(c, r, deg)
applyRotation(src, deg) ==
    LET hit == { rotate8(rc[2], rc[1], deg) :
                     rc \in { q \in Cells : Bit(src[q[1]], q[2]) } }
    IN  [ry \in Idx |-> Byte([rx \in Idx |-> << rx, ry >> \in hit])]

\* sendFrame: the 11 bytes written to a panel
sendFrame(mask) == << mask[0], mask[1], mask[2], mask[3], mask[4], mask[5],
                      mask[6], mask[7], SAND_R, SAND_G, SAND_B >>

----------------------------------------------------------------------------
(* buildOrderDiagonal.  A node is <<r, c, d>>; nodes is a 0-based array.   *)

\* collect all cells with row + col = s, by ascending row
RECURSIVE CollectNodes(_, _, _)
CollectNodes(s, r, nodes) ==
    IF r >= GridSize THEN nodes
    ELSE LET c == s - r
             diff == IF r - c < 0 THEN 0 - (r - c) ELSE r - c
         IN  IF c >= 0 /\ c < GridSize
             THEN CollectNodes(s, r + 1, Append(nodes, << r, c, diff >>))
             ELSE CollectNodes(s, r + 1, nodes)

\* mutant: the comparison of the sort is reversed
SortSwaps_Descending(ni, nj) == nj[3] > ni[3]

\* mutant: the sort also swaps nodes of equal d
SortSwaps_OrEqual(ni, nj) == nj[3] <= ni[3]

\* if (nodes[j].d < nodes[i].d)
SortSwaps(ni, nj) == nj[3] < ni[3]

\* the exchange sort: for i, for j > i, swap when SortSwaps (1-based here)
RECURSIVE SortInner(_, _, _)
SortInner(nodes, i, j) ==
    IF j > Len(nodes) THEN nodes
    ELSE IF SortSwaps(nodes[i], nodes[j])
         THEN SortInner([nodes EXCEPT ![i] = nodes[j], ![j] = nodes[i]], i, j + 1)
         ELSE SortInner(nodes, i, j + 1)

RECURSIVE SortOuter(_, _)
SortOuter(nodes, i) ==
    IF i > Len(nodes) - 1 THEN nodes
    ELSE SortOuter(SortInner(nodes, i, i + 1), i + 1)

\* push into the order arrays while idx < 64
RECURSIVE BuildFrom(_, _)
BuildFrom(s, order) ==
    IF s > 14 THEN order
    ELSE LET sorted == SortOuter(CollectNodes(s, 0, << >>), 1)
             room == OrderLen - Len(order)
             pushed == IF Len(sorted) <= room THEN sorted
                       ELSE SubSeq(sorted, 1, room)
         IN  BuildFrom(s + 1, order \o pushed)

\* the sequence of <<r, c, d>> nodes in drain order (1-based)
buildOrderDiagonal == BuildFrom(0, << >>)

\* orderRow / orderCol after buildOrderDiagonal; entries never written stay 0
BuiltOrderRow ==
    [i \in 0 .. (OrderLen - 1) |->
        IF i < Len(buildOrderDiagonal) THEN buildOrderDiagonal[i + 1][1] ELSE 0]
BuiltOrderCol ==
    [i \in 0 .. (OrderLen - 1) |->
        IF i < Len(buildOrderDiagonal) THEN buildOrderDiagonal[i + 1][2] ELSE 0]

----------------------------------------------------------------------------
(* getDurationFromPot                                                      *)

getDurationFromPot(v) ==
    IF v < 170 THEN 30000
    ELSE IF v < 410 THEN 60000
    ELSE IF v < 600 THEN 120000
    ELSE IF v < 820 THEN 300000
    ELSE IF v < 900 THEN 600000
    ELSE 1800000

\* stepIntervalMs as startNewCycle derives it
StepInterval(ms) ==
    LET totalFrames == OrderLen * FramesPerGrain
        q == ms \div totalFrames
    IN  IF q = 0 THEN 1 ELSE q

(* getGravity: x, y are the sensor angles, last is lastGravity             *)

getGravity(x, y, last) ==
    IF y < ACC_THRESHOLD_LOW THEN 90
    ELSE IF x > ACC_THRESHOLD_HIGH THEN 0
    ELSE IF y > ACC_THRESHOLD_HIGH THEN 270
    ELSE IF x < ACC_THRESHOLD_LOW THEN 180
    ELSE last

----------------------------------------------------------------------------
(* buildMaskY: maskY from yStatic plus the active grain                    *)

\* the loops over r and c: bit c of maskY[r] is set iff yStatic[r][c]
BuildMaskYFrom(ys) == [r \in Idx |-> Byte(ys[r])]

InGrid(r, c) == r >= 0 /\ r < GridSize /\ c >= 0 /\ c < GridSize

buildMaskY(ys, ga, gr, gc) ==
    LET my == BuildMaskYFrom(ys)
    IN  IF ga /\ InGrid(gr, gc)
        THEN [my EXCEPT ![gr] = SetBit(my[gr], gc)]
        ELSE my

\* tempX of renderFrame: maskX with the hole punched out
HoleMask(mx, ha, hr, hc) ==
    IF ha /\ InGrid(hr, hc)
    THEN [mx EXCEPT ![hr] = ClearBit(mx[hr], hc)]
    ELSE mx

\* mutant: the hole is punched out of both fields
renderFrame_HoleOnTarget(mx, my, ha, hr, hc, ttb) ==
    LET tempX == HoleMask(mx, ha, hr, hc)
        tempY == HoleMask(my, ha, hr, hc)
    IN  IF ttb
        THEN [top |-> sendFrame(applyRotation(tempX, TOP_ROT_DEG)),
              bot |-> sendFrame(applyRotation(tempY, BOT_ROT_DEG))]
        ELSE [top |-> sendFrame(applyRotation(tempY, TOP_ROT_DEG)),
              bot |-> sendFrame(applyRotation(tempX, BOT_ROT_DEG))]

\* renderFrame: the frames sent to the top and the bottom panel, given maskX,
\* the maskY that buildMaskY has just built, the hole and the direction
renderFrame(mx, my, ha, hr, hc, ttb) ==
    LET tempX == HoleMask(mx, ha, hr, hc)
        tempY == my
    IN  IF ttb
        THEN [top |-> sendFrame(applyRotation(tempX, TOP_ROT_DEG)),
              bot |-> sendFrame(applyRotation(tempY, BOT_ROT_DEG))]
        ELSE [top |-> sendFrame(applyRotation(tempY, TOP_ROT_DEG)),
              bot |-> sendFrame(applyRotation(tempX, BOT_ROT_DEG))]

----------------------------------------------------------------------------
(* Grain movement rules of stepAnimation                                   *)

\* mutant: the fall ignores the settled cells
CanFall_NoOccupancy(ys, r, c) == r > 0 /\ c > 0

\* 1) main "down" direction (row-1, col-1)
CanFall(ys, r, c) == r > 0 /\ c > 0 /\ ~ys[r - 1][c - 1]
\* mutant: the move left ignores the settled cells
CanLeft_NoOccupancy(ys, r, c) == c > 0

\* option A: move left (same row, col-1)
CanLeft(ys, r, c) == c > 0 /\ ~ys[r][c - 1]
\* option B: move "down-right" (row-1, same col)
CanRight(ys, r, c) == r > 0 /\ ~ys[r - 1][c]

\* mutant: the side is taken from the toggle alone, legal or not
LateralChoice_IgnoresLegality(canLeft, canRight, toggle) ==
    IF canLeft \/ canRight THEN (IF toggle THEN 1 ELSE -1) ELSE 0

\* mutant: a grain whose fall is blocked never moves sideways
LateralChoice_Never(canLeft, canRight, toggle) == 0

\* choice: -1 left, 1 right, 0 none
LateralChoice(canLeft, canRight, toggle) ==
    IF canLeft /\ canRight THEN (IF toggle THEN 1 ELSE -1)
    ELSE IF canLeft THEN -1
    ELSE IF canRight THEN 1
    ELSE 0

\* mutant: sideToggle flips on every side move, forced or not
MoveGrain_TogglesOnSideMove(ys, r, c, toggle) ==
    IF CanFall(ys, r, c)
    THEN [row |-> r - 1, col |-> c - 1, moved |-> TRUE, toggle |-> toggle]
    ELSE LET canLeft == CanLeft(ys, r, c)
             canRight == CanRight(ys, r, c)
             choice == LateralChoice(canLeft, canRight, toggle)
             tg == IF canLeft \/ canRight THEN ~toggle ELSE toggle
         IN  IF choice = -1
             THEN [row |-> r, col |-> c - 1, moved |-> TRUE, toggle |-> tg]
             ELSE IF choice = 1
             THEN [row |-> r - 1, col |-> c, moved |-> TRUE, toggle |-> tg]
             ELSE [row |-> r, col |-> c, moved |-> FALSE, toggle |-> tg]

\* the grain after the movement part of one step: position, moved, sideToggle
MoveGrain(ys, r, c, toggle) ==
    IF CanFall(ys, r, c)
    THEN [row |-> r - 1, col |-> c - 1, moved |-> TRUE, toggle |-> toggle]
    ELSE LET canLeft == CanLeft(ys, r, c)
             canRight == CanRight(ys, r, c)
             choice == LateralChoice(canLeft, canRight, toggle)
             tg == IF canLeft /\ canRight THEN ~toggle ELSE toggle
         IN  IF choice = -1
             THEN [row |-> r, col |-> c - 1, moved |-> TRUE, toggle |-> tg]
             ELSE IF choice = 1
             THEN [row |-> r - 1, col |-> c, moved |-> TRUE, toggle |-> tg]
             ELSE [row |-> r, col |-> c, moved |-> FALSE, toggle |-> tg]

\* mutant: settling a grain forgets the grains settled before
Settle_Overwrites(ys, r, c) ==
    [rr \in Idx |-> [cc \in Idx |-> rr = r /\ cc = c]]

\* yStatic after a grain settles at (r, c)
Settle(ys, r, c) ==
    IF InGrid(r, c) THEN [ys EXCEPT ![r][c] = TRUE] ELSE ys

\* mutant: the hole stops one cell short of the corner
MoveHole_StopsShort(ha, hr, hc) ==
    IF ha
    THEN IF hr > 1 /\ hc > 1
         THEN [active |-> TRUE, row |-> hr - 1, col |-> hc - 1]
         ELSE [active |-> FALSE, row |-> hr, col |-> hc]
    ELSE [active |-> ha, row |-> hr, col |-> hc]

\* mutant: the hole moves on without the edge test
MoveHole_PastEdge(ha, hr, hc) ==
    IF ha
    THEN [active |-> TRUE, row |-> hr - 1, col |-> hc - 1]
    ELSE [active |-> ha, row |-> hr, col |-> hc]

\* the hole after the hole part of one step
MoveHole(ha, hr, hc) ==
    IF ha
    THEN IF hr > 0 /\ hc > 0
         THEN [active |-> TRUE, row |-> hr - 1, col |-> hc - 1]
         ELSE [active |-> FALSE, row |-> hr, col |-> hc]
    ELSE [active |-> ha, row |-> hr, col |-> hc]

----------------------------------------------------------------------------
(* State machine                                                           *)

\* the globals as the sketch initialises them, before setup() runs
Init ==
    /\ pc = "setup"
    /\ topToBottom = TRUE
    /\ lastGravity = 0
    /\ sinceFlipMs = 0
    /\ targetMs = 0
    /\ stepIntervalMs = 0
    /\ sinceStepMs = 0
    /\ finished = FALSE
    /\ maskX = [i \in Idx |-> 0]
    /\ maskY = [i \in Idx |-> 0]
    /\ yStatic = [r \in Idx |-> [c \in Idx |-> FALSE]]
    /\ grainActive = FALSE
    /\ grRow = NECK_ROW
    /\ grCol = NECK_COL
    /\ sideToggle = FALSE
    /\ orderRow = [i \in 0 .. (OrderLen - 1) |-> 0]
    /\ orderCol = [i \in 0 .. (OrderLen - 1) |-> 0]
    /\ grainIndex = 0
    /\ topHoleActive = FALSE
    /\ holeRow = NECK_ROW
    /\ holeCol = NECK_COL
    /\ topFrame = << >>
    /\ botFrame = << >>
    /\ stepCalls = 0

\* mutant: the restart forgets the hole marker
startNewCycle_KeepsHole(dirTopToBottom, v) ==
    /\ topToBottom' = dirTopToBottom
    /\ finished' = FALSE
    /\ grainIndex' = 0
    /\ grainActive' = FALSE
    /\ sideToggle' = FALSE
    /\ maskX' = [i \in Idx |-> 255]
    /\ maskY' = [i \in Idx |-> 0]
    /\ yStatic' = [r \in Idx |-> [c \in Idx |-> FALSE]]
    /\ targetMs' = getDurationFromPot(v)
    /\ stepIntervalMs' = StepInterval(getDurationFromPot(v))
    /\ sinceStepMs' = Saturate(ToneDelayMs)
    /\ stepCalls' = 0
    /\ UNCHANGED << topHoleActive, grRow, grCol, holeRow, holeCol, topFrame,
                    botFrame >>

\* startNewCycle(dirTopToBottom), v the pot reading; it ends with delay(80)
startNewCycle(dirTopToBottom, v) ==
    /\ topToBottom' = dirTopToBottom
    /\ finished' = FALSE
    /\ grainIndex' = 0
    /\ grainActive' = FALSE
    /\ sideToggle' = FALSE
    /\ topHoleActive' = FALSE
    /\ maskX' = [i \in Idx |-> 255]
    /\ maskY' = [i \in Idx |-> 0]
    /\ yStatic' = [r \in Idx |-> [c \in Idx |-> FALSE]]
    /\ targetMs' = getDurationFromPot(v)
    /\ stepIntervalMs' = StepInterval(getDurationFromPot(v))
    /\ sinceStepMs' = Saturate(ToneDelayMs)
    /\ stepCalls' = 0
    /\ UNCHANGED << grRow, grCol, holeRow, holeCol, topFrame, botFrame >>

\* setup(): build the order, read the gravity, start the first cycle
Setup(x, y, v, boot) ==
    /\ pc = "setup"
    /\ orderRow' = BuiltOrderRow
    /\ orderCol' = BuiltOrderCol
    /\ lastGravity' = getGravity(x, y, lastGravity)
    /\ startNewCycle(getGravity(x, y, lastGravity) = 90, v)
    /\ sinceFlipMs' = Saturate(boot + ToneDelayMs)
    /\ pc' = "update"

\* loop(): mpu6050.update(), taking dt ms since the previous pass
MpuUpdate(dt) ==
    /\ pc = "update"
    /\ sinceFlipMs' = Saturate(sinceFlipMs + dt)
    /\ sinceStepMs' = Saturate(sinceStepMs + dt)
    /\ pc' = "checkFlip"
    /\ UNCHANGED << topToBottom, lastGravity, targetMs, stepIntervalMs, finished,
                    maskX, maskY, yStatic, grainActive, grRow, grCol, sideToggle,
                    orderRow, orderCol, grainIndex, topHoleActive, holeRow,
                    holeCol, topFrame, botFrame, stepCalls >>

\* mutant: no debounce
FlipRecognized_NoDebounce(newDir, ttb, elapsed) == newDir # ttb

\* newDir != topToBottom && (now - lastFlipMs) > FLIP_DEBOUNCE_MS
FlipRecognized(newDir, ttb, elapsed) ==
    newDir # ttb /\ elapsed > FLIP_DEBOUNCE_MS

\* mutant: lastFlipMs = now is outside the if, every call restarts the
\* debounce interval
checkFlip_DebounceRestarts(x, y, v) ==
    /\ pc = "checkFlip"
    /\ LET g == getGravity(x, y, lastGravity)
           newDir == (g = 90)
       IN  /\ IF FlipRecognized(newDir, topToBottom, sinceFlipMs)
              THEN /\ sinceFlipMs' = Saturate(ToneDelayMs)
                   /\ startNewCycle(newDir, v)
              ELSE /\ sinceFlipMs' = 0
                   /\ UNCHANGED << topToBottom, finished, grainIndex,
                                   grainActive, sideToggle, topHoleActive, maskX,
                                   maskY, yStatic, targetMs, stepIntervalMs,
                                   sinceStepMs, grRow, grCol, holeRow, holeCol,
                                   topFrame, botFrame, stepCalls >>
           /\ lastGravity' = g
    /\ pc' = "timer"
    /\ UNCHANGED << orderRow, orderCol >>

\* checkFlip(): x, y the angles read, v the pot reading a restart would take
checkFlip(x, y, v) ==
    /\ pc = "checkFlip"
    /\ LET g == getGravity(x, y, lastGravity)
           newDir == (g = 90)
       IN  /\ IF FlipRecognized(newDir, topToBottom, sinceFlipMs)
              THEN /\ sinceFlipMs' = Saturate(ToneDelayMs)
                   /\ startNewCycle(newDir, v)
              ELSE UNCHANGED << sinceFlipMs, topToBottom, finished, grainIndex,
                                grainActive, sideToggle, topHoleActive, maskX,
                                maskY, yStatic, targetMs, stepIntervalMs,
                                sinceStepMs, grRow, grCol, holeRow, holeCol,
                                topFrame, botFrame, stepCalls >>
           /\ lastGravity' = g
    /\ pc' = "timer"
    /\ UNCHANGED << orderRow, orderCol >>

\* now - lastStepMs >= stepIntervalMs
StepDue == sinceStepMs >= stepIntervalMs

\* loop(): the interval has not elapsed, the step is skipped
SkipStep ==
    /\ pc = "timer"
    /\ ~StepDue
    /\ pc' = "update"
    /\ UNCHANGED << topToBottom, lastGravity, sinceFlipMs, targetMs,
                    stepIntervalMs, sinceStepMs, finished, maskX, maskY, yStatic,
                    grainActive, grRow, grCol, sideToggle, orderRow, orderCol,
                    grainIndex, topHoleActive, holeRow, holeCol, topFrame,
                    botFrame, stepCalls >>

\* mutant: row and column of the drain-order entry are swapped
DrainCell_Transposed(mx, idx) ==
    [mx EXCEPT ![orderCol[idx]] = ClearBit(mx[orderCol[idx]], orderRow[idx])]

\* maskX &= ~(1 << c) for the drain-order entry idx
DrainCell(mx, idx) ==
    [mx EXCEPT ![orderRow[idx]] = ClearBit(mx[orderRow[idx]], orderCol[idx])]

\* mutant: the completion test is off by one
CycleDone_OffByOne(idx) == idx > OrderLen

\* grainIndex >= 64
CycleDone(idx) == idx >= OrderLen

\* the grain part of stepAnimation (not finished): the fields it leaves
GrainPhase ==
    IF ~grainActive /\ grainIndex < OrderLen
    THEN \* a grain leaves the top: spawn grain and hole at the neck
         [mx |-> DrainCell(maskX, grainIndex), ys |-> yStatic,
          ga |-> TRUE, gr |-> NECK_ROW, gc |-> NECK_COL, tg |-> sideToggle,
          gi |-> grainIndex, fin |-> finished,
          ha |-> TRUE, hr |-> NECK_ROW, hc |-> NECK_COL]
    ELSE IF grainActive
    THEN LET m == MoveGrain(yStatic, grRow, grCol, sideToggle)
         IN  IF m.moved
             THEN [mx |-> maskX, ys |-> yStatic,
                   ga |-> TRUE, gr |-> m.row, gc |-> m.col, tg |-> m.toggle,
                   gi |-> grainIndex, fin |-> finished,
                   ha |-> topHoleActive, hr |-> holeRow, hc |-> holeCol]
             ELSE \* settle grain on bottom
                  [mx |-> maskX, ys |-> Settle(yStatic, grRow, grCol),
                   ga |-> FALSE, gr |-> grRow, gc |-> grCol, tg |-> m.toggle,
                   gi |-> grainIndex + 1, fin |-> CycleDone(grainIndex + 1),
                   ha |-> topHoleActive, hr |-> holeRow, hc |-> holeCol]
    ELSE [mx |-> maskX, ys |-> yStatic,
          ga |-> grainActive, gr |-> grRow, gc |-> grCol, tg |-> sideToggle,
          gi |-> grainIndex, fin |-> finished,
          ha |-> topHoleActive, hr |-> holeRow, hc |-> holeCol]

\* mutant: the early return of a finished cycle is missing
stepAnimation_NoEarlyReturn ==
    /\ pc = "timer"
    /\ StepDue
    /\ LET g == GrainPhase
           h == MoveHole(g.ha, g.hr, g.hc)
           my == buildMaskY(g.ys, g.ga, g.gr, g.gc)
           fr == renderFrame(g.mx, my, h.active, h.row, h.col, topToBottom)
           wait == IF g.fin /\ ~finished THEN ToneDelayMs ELSE 0
       IN  /\ maskX' = g.mx
           /\ yStatic' = g.ys
           /\ grainActive' = g.ga
           /\ grRow' = g.gr
           /\ grCol' = g.gc
           /\ sideToggle' = g.tg
           /\ grainIndex' = g.gi
           /\ finished' = g.fin
           /\ topHoleActive' = h.active
           /\ holeRow' = h.row
           /\ holeCol' = h.col
           /\ maskY' = my
           /\ topFrame' = fr.top
           /\ botFrame' = fr.bot
           /\ sinceStepMs' = Saturate(wait)
           /\ sinceFlipMs' = Saturate(sinceFlipMs + wait)
           /\ stepCalls' = IF finished THEN stepCalls ELSE stepCalls + 1
    /\ pc' = "update"
    /\ UNCHANGED << topToBottom, lastGravity, targetMs, stepIntervalMs,
                    orderRow, orderCol >>

\* loop(): the interval has elapsed: lastStepMs = now; stepAnimation()
stepAnimation ==
    /\ pc = "timer"
    /\ StepDue
    /\ IF finished
       THEN \* only renderFrame()
            LET my == buildMaskY(yStatic, grainActive, grRow, grCol)
                fr == renderFrame(maskX, my, topHoleActive, holeRow, holeCol,
                                  topToBottom)
            IN  /\ maskY' = my
                /\ topFrame' = fr.top
                /\ botFrame' = fr.bot
                /\ sinceStepMs' = 0
                /\ UNCHANGED << sinceFlipMs, finished, maskX, yStatic,
                                grainActive, grRow, grCol, sideToggle,
                                grainIndex, topHoleActive, holeRow, holeCol,
                                stepCalls >>
       ELSE LET g == GrainPhase
                h == MoveHole(g.ha, g.hr, g.hc)
                my == buildMaskY(g.ys, g.ga, g.gr, g.gc)
                fr == renderFrame(g.mx, my, h.active, h.row, h.col, topToBottom)
                \* the cycle's last settlement ends with delay(80)
                wait == IF g.fin THEN ToneDelayMs ELSE 0
            IN  /\ maskX' = g.mx
                /\ yStatic' = g.ys
                /\ grainActive' = g.ga
                /\ grRow' = g.gr
                /\ grCol' = g.gc
                /\ sideToggle' = g.tg
                /\ grainIndex' = g.gi
                /\ finished' = g.fin
                /\ topHoleActive' = h.active
                /\ holeRow' = h.row
                /\ holeCol' = h.col
                /\ maskY' = my
                /\ topFrame' = fr.top
                /\ botFrame' = fr.bot
                /\ sinceStepMs' = Saturate(wait)
                /\ sinceFlipMs' = Saturate(sinceFlipMs + wait)
                /\ stepCalls' = stepCalls + 1
    /\ pc' = "update"
    /\ UNCHANGED << topToBottom, lastGravity, targetMs, stepIntervalMs,
                    orderRow, orderCol >>

Next ==
    \/ \E a \in Angles, v \in PotReadings, boot \in BootMs :
           Setup(a[1], a[2], v, boot)
    \/ \E dt \in TickMs : MpuUpdate(dt)
    \/ \E a \in Angles, v \in PotReadings : checkFlip(a[1], a[2], v)
    \/ stepAnimation
    \/ SkipStep

Spec == Init /\ [][Next]_vars

\* the sketch moves on: setup() returns, and the Arduino core calls loop()
\* again whenever it returns.  Every step of Next changes pc and some step
\* of Next is possible in every state, so weak fairness of this action under
\* Spec is weak fairness of Next.
LoopAdvances == pc' \in {"update", "checkFlip", "timer"} /\ pc' # pc

FairSpec == Spec /\ WF_pc(LoopAdvances)

----------------------------------------------------------------------------
(* Properties                                                              *)

\* cells set in maskX, cells true in yStatic
SourceCells == { q \in Cells : Bit(maskX[q[1]], q[2]) }
StaticCells == { q \in Cells : yStatic[q[1]][q[2]] }
MaskYCells == { q \in Cells : Bit(maskY[q[1]], q[2]) }

\* loop() is about to call stepAnimation()
Tick == pc = "timer" /\ StepDue

\* C1: mass conservation.  Once setup() has started the first cycle, the set
\* bits of maskX, the true cells of yStatic and the active grain (if any)
\* add up to 64, whatever steps and flip restarts have happened.
MassConserved ==
    pc # "setup" =>
        Cardinality(SourceCells) + Cardinality(StaticCells)
            + (IF grainActive THEN 1 ELSE 0) = 64

\* a cycle well under way: 12 grains have left the top, 11 have settled
MassConservedWitness ==
    /\ grainActive
    /\ Cardinality(StaticCells) = 11
    /\ Cardinality(SourceCells) = 52

\* the drain order as a sequence of cells and its two keys
OrderCellAt(oRow, oCol, i) == << oRow[i], oCol[i] >>
OrderSum(oRow, oCol, i) == oRow[i] + oCol[i]
OrderDist(oRow, oCol, i) ==
    IF oRow[i] >= oCol[i] THEN oRow[i] - oCol[i] ELSE oCol[i] - oRow[i]

\* each of the 64 cells exactly once, by ascending row + col and, within one
\* sum, by ascending |row - col|
IsDiagonalOrder(oRow, oCol) ==
    /\ \A q \in Cells :
           Cardinality({ i \in 0 .. 63 : OrderCellAt(oRow, oCol, i) = q }) = 1
    /\ \A i \in 0 .. 63 : \A j \in (i + 1) .. 63 :
           /\ OrderSum(oRow, oCol, i) <= OrderSum(oRow, oCol, j)
           /\ OrderSum(oRow, oCol, i) = OrderSum(oRow, oCol, j)
                  => OrderDist(oRow, oCol, i) <= OrderDist(oRow, oCol, j)

BuiltOrderIsDiagonal == IsDiagonalOrder(BuiltOrderRow, BuiltOrderCol)

\* C2: after setup(), orderRow / orderCol hold what buildOrderDiagonal built,
\* which lists each of the 64 cells exactly once, by ascending row + col
\* and, for equal sums, by ascending |row - col|.
DrainOrderSorted ==
    pc # "setup" =>
        /\ orderRow = BuiltOrderRow
        /\ orderCol = BuiltOrderCol
        /\ BuiltOrderIsDiagonal

\* the order is in use: the anti-diagonal row + col = 7, the longest, is
\* being drained, centre first
DrainOrderSortedWitness ==
    /\ grainActive
    /\ grainIndex = 29
    /\ OrderCellAt(orderRow, orderCol, 28) = << 3, 4 >>
    /\ OrderCellAt(orderRow, orderCol, 29) = << 4, 3 >>
    /\ SourceCells = { OrderCellAt(orderRow, orderCol, i) : i \in 30 .. 63 }

\* the state startNewCycle leaves
FreshCycle ==
    /\ maskX = [i \in Idx |-> 255]
    /\ maskY = [i \in Idx |-> 0]
    /\ StaticCells = {}
    /\ ~grainActive
    /\ ~topHoleActive
    /\ grainIndex = 0
    /\ ~sideToggle
    /\ ~finished

\* a cycle start: setup(), or a checkFlip() that recognizes a flip (the
\* gravity it read is the lastGravity it leaves)
CycleStarts ==
    \/ pc = "setup"
    \/ /\ pc = "checkFlip"
       /\ (lastGravity' = 90) # topToBottom
       /\ sinceFlipMs > 800

\* C3: every cycle start, in setup() or by a recognized flip, leaves in one
\* step the fully reset state, with topToBottom the requested direction,
\* whatever state the previous cycle was in; the next stepAnimation starts
\* from it.
CycleStartResets ==
    [][CycleStarts => (FreshCycle' /\ topToBottom' = (lastGravity' = 90)
                          /\ pc' \in {"update", "timer"})]_vars

\* just after a flip restart that cut a cycle short: the previous cycle's
\* grain and hole were in flight, its frames are still on the panels
CycleStartResetsWitness ==
    /\ pc = "timer"
    /\ sinceFlipMs = ToneDelayMs
    /\ FreshCycle
    /\ ~topToBottom
    /\ grRow = 3 /\ grCol = 4
    /\ holeRow = 2
    /\ topFrame # << >>

\* C4: finished holds exactly when 64 grains have settled, and then maskX
\* has no bit set and every cell of yStatic is true.
FinishedIffAllSettled ==
    /\ finished <=> grainIndex = 64
    /\ finished => (SourceCells = {} /\ StaticCells = Cells)

FinishedIffAllSettledWitness ==
    /\ finished
    /\ grainIndex = 64
    /\ pc = "checkFlip"

\* the hole marker's fields
hole == << topHoleActive, holeRow, holeCol >>

\* C5 as stated: on every simulation tick an active hole marker that has
\* not reached row 0 / col 0 advances one diagonal step, whatever the grain
\* does, for every grain of the cycle.
HoleAlwaysAdvances ==
    [][(Tick /\ topHoleActive /\ holeRow > 0 /\ holeCol > 0)
          => (topHoleActive' /\ holeRow' = holeRow - 1
                  /\ holeCol' = holeCol - 1)]_vars

\* C5 amended: a tick of a finished cycle leaves the marker as it is; a tick
\* that spawns a grain puts the marker at the neck and moves it at once, to
\* (6,6); any other tick moves an active marker one diagonal step, or
\* deactivates it where it is once it is at row 0 or col 0.  An active
\* marker is on the diagonal, k ticks after its spawn tick at (6-k, 6-k).
HoleAdvanceRule ==
    [][Tick =>
          /\ IF finished
             THEN UNCHANGED hole
             ELSE IF ~grainActive
             THEN topHoleActive' /\ holeRow' = NECK_ROW - 1
                      /\ holeCol' = NECK_COL - 1
             ELSE IF topHoleActive /\ holeRow > 0 /\ holeCol > 0
             THEN topHoleActive' /\ holeRow' = holeRow - 1
                      /\ holeCol' = holeCol - 1
             ELSE ~topHoleActive' /\ UNCHANGED << holeRow, holeCol >>
          /\ topHoleActive' => (holeRow' = holeCol' /\ holeRow' \in 0 .. 6)]_vars

\* the marker of the cycle's last grain, frozen two steps from the neck
HoleAdvanceRuleWitness ==
    /\ finished
    /\ topHoleActive
    /\ holeRow = 5 /\ holeCol = 5

\* C6: one step of an active grain at (r, c): the fall to (r-1, c-1) if it
\* is legal; otherwise a move to a legal side cell, (r, c-1) or (r-1, c);
\* otherwise the grain settles in this step: yStatic[r][c] becomes true,
\* grainActive false, grainIndex one more.  From (7,7) over an empty yStatic
\* the move is the fall to (6,6).
GrainStepRule ==
    [][(Tick /\ grainActive) =>
          LET r == grRow
              c == grCol
              fall == r > 0 /\ c > 0 /\ << r - 1, c - 1 >> \notin StaticCells
              left == c > 0 /\ << r, c - 1 >> \notin StaticCells
              right == r > 0 /\ << r - 1, c >> \notin StaticCells
              moves == /\ grainActive'
                       /\ yStatic' = yStatic
                       /\ grainIndex' = grainIndex
          IN  /\ IF fall
                 THEN moves /\ grRow' = r - 1 /\ grCol' = c - 1
                 ELSE IF left \/ right
                 THEN /\ moves
                      /\ \/ left /\ grRow' = r /\ grCol' = c - 1
                         \/ right /\ grRow' = r - 1 /\ grCol' = c
                 ELSE /\ StaticCells' = StaticCells \cup { << r, c >> }
                      /\ ~grainActive'
                      /\ grainIndex' = grainIndex + 1
                      /\ grRow' = r /\ grCol' = c
              /\ (r = 7 /\ c = 7 /\ StaticCells = {})
                     => (grRow' = 6 /\ grCol' = 6)]_vars

\* a grain has just settled off the diagonal, where only side moves lead
GrainStepRuleWitness ==
    /\ pc = "update"
    /\ ~grainActive
    /\ grainIndex = 6
    /\ grRow # grCol
    /\ << grRow, grCol >> \in StaticCells

\* the fall is blocked and both side cells are free
SideTie ==
    /\ ~CanFall(yStatic, grRow, grCol)
    /\ CanLeft(yStatic, grRow, grCol)
    /\ CanRight(yStatic, grRow, grCol)

\* C7 as stated: the side an active grain takes depends on the tilt.  With
\* both sides free, a tilt to the right (angleX above the band, gravity 0)
\* sends the grain right (row - 1) and a tilt to the left (angleX below the
\* band, gravity 180) sends it left (col - 1).
TiltDecidesSpread ==
    [][(Tick /\ grainActive /\ SideTie) =>
          /\ lastGravity = 0 => (grRow' = grRow - 1 /\ grCol' = grCol)
          /\ lastGravity = 180 => (grRow' = grRow /\ grCol' = grCol - 1)]_vars

\* the fields a recognized flip resets and an ignored reading leaves alone
cycleState ==
    << topToBottom, sinceFlipMs, finished, grainIndex, grainActive, sideToggle,
       topHoleActive, maskX, maskY, yStatic, grRow, grCol, holeRow, holeCol,
       targetMs, stepIntervalMs, sinceStepMs >>

\* C8: checkFlip restarts the cycle, with topToBottom inverted, when the
\* direction it derives (gravity = 90) differs from topToBottom and more
\* than 800 ms have passed since the last recognized flip, and otherwise
\* changes nothing but lastGravity; so a differing reading after 500 ms is
\* ignored and one after 900 ms is accepted.
FlipDebounced ==
    [][pc = "checkFlip" =>
          LET differs == (lastGravity' = 90) # topToBottom
          IN  /\ IF differs /\ sinceFlipMs > 800
                 THEN /\ topToBottom' = ~topToBottom
                      /\ FreshCycle'
                      /\ sinceFlipMs' = ToneDelayMs
                 ELSE UNCHANGED cycleState
              /\ (differs /\ sinceFlipMs = 500) => UNCHANGED cycleState
              /\ (differs /\ sinceFlipMs = 900) => topToBottom' = ~topToBottom
              /\ topToBottom' # topToBottom => sinceFlipMs >= 800]_vars

\* a differing reading 500 ms after a flip has just been ignored, in a
\* cycle that is under way
FlipDebouncedWitness ==
    /\ pc = "timer"
    /\ sinceFlipMs = 500
    /\ (lastGravity = 90) # topToBottom
    /\ grainActive

\* degree values handed to rotate8: the four rotations, values that
\* normalise to them, and values that normalise to none of them
Degrees == { -450, -270, -90, -45, 0, 45, 90, 100, 180, 270, 360, 450, 630, 725 }

\* rotate8 on a cell <<r, c>>, x being the column: the cell <<ry, rx>>
RotateCell(q, deg) == << rotate8(q[2], q[1], deg)[2], rotate8(q[2], q[1], deg)[1] >>

\* the set bits of an 8-row bitmap, as cells
BitmapCells(m) == { q \in Cells : Bit(m[q[1]], q[2]) }

\* rotate8 maps the 64 cells one to one onto the 64 cells for every degree
\* value; four rotations by 90 bring every cell back; a value that does not
\* normalise to 90, 180 or 270 maps every cell to itself
Rotate8Facts ==
    /\ \A deg \in Degrees :
           /\ { RotateCell(q, deg) : q \in Cells } = Cells
           /\ \A q1 \in Cells : \A q2 \in Cells :
                  RotateCell(q1, deg) = RotateCell(q2, deg) => q1 = q2
           /\ NormDeg(deg) \notin {90, 180, 270}
                  => \A q \in Cells : RotateCell(q, deg) = q
    /\ \A q \in Cells :
           RotateCell(RotateCell(RotateCell(RotateCell(q, 90), 90), 90), 90) = q

\* what applyRotation does to bitmap m: the set bits keep their number for
\* each of the four rotations, four rotations by 90 give m back, and a
\* degree value that is no rotation leaves m as it is
RotationKeeps(m) ==
    /\ \A deg \in {0, 90, 180, 270} :
           /\ Cardinality(BitmapCells(applyRotation(m, deg)))
                  = Cardinality(BitmapCells(m))
           /\ BitmapCells(applyRotation(m, deg))
                  = { RotateCell(q, deg) : q \in BitmapCells(m) }
    /\ applyRotation(applyRotation(applyRotation(applyRotation(m, 90), 90), 90), 90) = m
    /\ applyRotation(m, 45) = m
    /\ applyRotation(m, 360) = m

\* stepAnimation has just rendered a frame
JustRendered == pc = "update" /\ sinceStepMs <= ToneDelayMs /\ topFrame # << >>

\* C9: rotate8 is a bijection of the 64 cells for each rotation amount, so
\* applyRotation keeps the number of set bits of the bitmaps the sketch
\* rotates; four applications of the 90 degree rotation return the bitmap;
\* a degree value that normalises to no rotation is the identity.
RotationIsBijective ==
    /\ Rotate8Facts
    /\ JustRendered => (RotationKeeps(maskX) /\ RotationKeeps(maskY))

\* frames have just been rendered from bitmaps that are neither empty nor
\* full nor symmetric
RotationIsBijectiveWitness ==
    /\ JustRendered
    /\ Cardinality(BitmapCells(maskX)) = 40
    /\ Cardinality(BitmapCells(maskY)) = 24
    /\ applyRotation(maskY, 90) # maskY
    /\ applyRotation(maskY, 90) # applyRotation(maskY, 270)

\* the cells lit on a panel: the 8 mask bytes of the last frame sent to it
FrameCells(frame) == { q \in Cells : Bit(frame[q[1] + 1], q[2]) }

\* the Source field as shown: maskX without the hole cell
SourceShown ==
    SourceCells \ (IF topHoleActive THEN { << holeRow, holeCol >> } ELSE {})

\* the Target field as shown: yStatic plus the active grain
TargetShown ==
    StaticCells \cup (IF grainActive THEN { << grRow, grCol >> } ELSE {})

RotatedCells(S, deg) == { RotateCell(q, deg) : q \in S }

\* the panels show the present fields
Composed ==
    /\ MaskYCells = TargetShown
    /\ IF topToBottom
       THEN /\ FrameCells(topFrame) = RotatedCells(SourceShown, 90)
            /\ FrameCells(botFrame) = RotatedCells(TargetShown, 270)
       ELSE /\ FrameCells(topFrame) = RotatedCells(TargetShown, 90)
            /\ FrameCells(botFrame) = RotatedCells(SourceShown, 270)

\* C10: the frames a step renders are a function of maskX, yStatic, the
\* grain, the hole and topToBottom as the step leaves them: Source is maskX
\* without the hole cell, Target is yStatic plus the grain and is not
\* touched by the hole; top gets the rotation by 90 and bottom the rotation
\* by 270 of the field assigned to it.  Rendering again with no step in
\* between (the steps of a finished cycle) sends the same frames and changes
\* none of these fields.
RenderIsPure ==
    [][Tick =>
          /\ Composed'
          /\ finished =>
                 /\ topFrame' = topFrame
                 /\ botFrame' = botFrame
                 /\ maskY' = maskY
                 /\ UNCHANGED << maskX, yStatic, grainActive, grRow, grCol,
                                 sideToggle, grainIndex, finished, topToBottom,
                                 topHoleActive, holeRow, holeCol >>]_vars

\* a frame rendered with the hole over a lit Source cell and the grain on a
\* cell next to the hole's, in a cycle that runs bottom to top
RenderIsPureWitness ==
    /\ JustRendered
    /\ ~topToBottom
    /\ topHoleActive
    /\ << holeRow, holeCol >> \in SourceCells
    /\ grainActive
    /\ << grRow, grCol >> \notin StaticCells
    /\ << holeRow, holeCol >> \in StaticCells

\* C11: while a grain is active its cell is not a settled cell: the spawn
\* at the neck (7,7) and every move put it on a cell that is false in
\* yStatic, for each of the 64 grains.
GrainNotOnStatic ==
    /\ grainActive => << grRow, grCol >> \notin StaticCells
    /\ << NECK_ROW, NECK_COL >> \in StaticCells => grainIndex = OrderLen

\* the 64th grain has just spawned at the neck, the only cell left free
GrainNotOnStaticWitness ==
    /\ pc = "update"
    /\ grainActive
    /\ grainIndex = 63
    /\ grRow = NECK_ROW /\ grCol = NECK_COL
    /\ Cardinality(StaticCells) = 63

\* the first n cells of the drain order
Drained(n) == { OrderCellAt(orderRow, orderCol, i) : i \in 0 .. (n - 1) }

\* the grains that have left the top: the settled ones and the active one
GrainsOut == grainIndex + (IF grainActive THEN 1 ELSE 0)

\* the cleared bits of maskX are the first GrainsOut cells of the drain order
DrainedInOrder == pc # "setup" => (Cells \ SourceCells) = Drained(GrainsOut)

\* C12: maskX is cleared in drain order, one cell per grain: after every
\* step the cleared bits of maskX are exactly the drain-order entries with
\* index below grainIndex + (1 if a grain is active); within a cycle
\* grainIndex never decreases, grows only by 1 and only in the step that
\* settles the active grain, and it never exceeds 64.
DrainFollowsOrder ==
    [][/\ DrainedInOrder'
       /\ grainIndex' \in 0 .. OrderLen
       /\ ~CycleStarts =>
              /\ grainIndex' >= grainIndex
              /\ grainIndex' # grainIndex =>
                     /\ grainIndex' = grainIndex + 1
                     /\ Tick /\ grainActive /\ ~grainActive'
                     /\ StaticCells' = StaticCells \cup { << grRow, grCol >> }
              /\ SourceCells' # SourceCells =>
                     /\ Tick /\ ~grainActive /\ grainActive'
                     /\ SourceCells' = SourceCells
                            \ { OrderCellAt(orderRow, orderCol, grainIndex) }]_vars

\* the 41st grain is on its way: 41 cells drained, 40 grains settled, in a
\* cycle that a flip started
DrainFollowsOrderWitness ==
    /\ ~topToBottom
    /\ grainActive
    /\ grainIndex = 40
    /\ Cardinality(SourceCells) = 23
    /\ OrderCellAt(orderRow, orderCol, 40) \notin SourceCells
    /\ OrderCellAt(orderRow, orderCol, 41) \in SourceCells

\* a step of an active grain whose fall is blocked and whose side cells are
\* both free
TieStep == Tick /\ ~finished /\ grainActive /\ SideTie

\* C13: sideToggle changes in exactly the steps in which the fall is
\* blocked and both side moves are legal; such a step goes left (col - 1)
\* when sideToggle is false and down-right (row - 1) when it is true, and
\* inverts it.  A cycle start leaves it false, so the ties of a cycle are
\* resolved left, down-right, left, ... across its grains.
TiesAlternate ==
    [][/\ CycleStarts => ~sideToggle'
       /\ ~CycleStarts =>
              /\ sideToggle' # sideToggle <=> TieStep
              /\ TieStep =>
                     /\ grainActive'
                     /\ IF sideToggle
                        THEN grRow' = grRow - 1 /\ grCol' = grCol
                        ELSE grRow' = grRow /\ grCol' = grCol - 1]_vars

\* the second tie of a cycle has just been resolved down-right: the fifth
\* grain went from (2,2) to (1,2); the first tie sent the second grain left
TiesAlternateWitness ==
    /\ pc = "update"
    /\ grainActive
    /\ grainIndex = 4
    /\ grRow = 1 /\ grCol = 2
    /\ ~sideToggle
    /\ StaticCells = { << 0, 0 >>, << 1, 0 >>, << 0, 1 >>, << 1, 1 >> }

\* a stable sort by d, for reference: insertion behind the nodes of equal d
InsertStable(sorted, x) ==
    LET k == Cardinality({ i \in 1 .. Len(sorted) : sorted[i][3] <= x[3] })
    IN  SubSeq(sorted, 1, k) \o << x >> \o SubSeq(sorted, k + 1, Len(sorted))

RECURSIVE StableSortFrom(_, _, _)
StableSortFrom(nodes, i, sorted) ==
    IF i > Len(nodes) THEN sorted
    ELSE StableSortFrom(nodes, i + 1, InsertStable(sorted, nodes[i]))

StableSort(nodes) == StableSortFrom(nodes, 1, << >>)

\* the nodes after the first k passes of the outer loop of the sort
RECURSIVE SortPasses(_, _, _)
SortPasses(nodes, i, k) ==
    IF i > k THEN nodes
    ELSE SortPasses(SortInner(nodes, i, i + 1), i + 1, k)

\* nodes of equal d are in ascending row
EqualKeysByRow(nodes) ==
    \A i \in 1 .. Len(nodes) : \A j \in (i + 1) .. Len(nodes) :
        nodes[i][3] = nodes[j][3] => nodes[i][1] < nodes[j][1]

\* on each of the 15 anti-diagonals the exchange sort gives what a stable
\* sort of the collected nodes gives, and no pass of its outer loop leaves
\* two nodes of equal d out of their collected order
ExchangeSortIsStable ==
    \A s \in 0 .. 14 :
        LET collected == CollectNodes(s, 0, << >>)
        IN  /\ SortOuter(collected, 1) = StableSort(collected)
            /\ \A k \in 0 .. Len(collected) :
                   EqualKeysByRow(SortPasses(collected, 1, k))

\* in the order built, two cells of one anti-diagonal and of equal d are in
\* ascending row
BuiltOrderIsStable ==
    \A i \in 0 .. 63 : \A j \in (i + 1) .. 63 :
        (/\ OrderSum(BuiltOrderRow, BuiltOrderCol, i)
               = OrderSum(BuiltOrderRow, BuiltOrderCol, j)
         /\ OrderDist(BuiltOrderRow, BuiltOrderCol, i)
               = OrderDist(BuiltOrderRow, BuiltOrderCol, j))
            => BuiltOrderRow[i] < BuiltOrderRow[j]

\* C14: the drain order is stable within equal d: on every anti-diagonal
\* the exchange sort leaves cells of equal |row - col| in the order they were
\* collected in, ascending row, so the order in orderRow / orderCol is the
\* stable sort by d of each diagonal's row-ascending cell list.
DrainOrderStable ==
    pc # "setup" =>
        /\ ExchangeSortIsStable
        /\ BuiltOrderIsStable
        /\ orderRow = BuiltOrderRow
        /\ orderCol = BuiltOrderCol

\* the order is in use on a pair of equal d: on the diagonal row + col = 8
\* cell (3,5) has drained and settled, its twin (5,3) has just drained
DrainOrderStableWitness ==
    /\ grainActive
    /\ grainIndex = 38
    /\ OrderCellAt(orderRow, orderCol, 37) = << 3, 5 >>
    /\ OrderCellAt(orderRow, orderCol, 38) = << 5, 3 >>
    /\ << 5, 3 >> \notin SourceCells
    /\ << 2, 6 >> \in SourceCells

\* C15: a cell of yStatic that is true stays true for the rest of the
\* cycle: no step of the loop clears one (a step adds at most the cell of
\* the grain it settles); only a cycle start, through startNewCycle, clears
\* yStatic, and it clears all of it.
SettledStaysSettled ==
    [][IF CycleStarts
       THEN StaticCells' = {}
       ELSE /\ StaticCells \subseteq StaticCells'
            /\ StaticCells' # StaticCells =>
                   /\ Tick /\ grainActive
                   /\ StaticCells' = StaticCells \cup { << grRow, grCol >> }]_vars

\* the 50th grain has just settled on top of the 49 before it
SettledStaysSettledWitness ==
    /\ pc = "update"
    /\ ~grainActive
    /\ grainIndex = 50
    /\ Cardinality(StaticCells) = 50
    /\ << grRow, grCol >> \in StaticCells

\* the simulation fields: the two sand fields, the grain, the hole marker
simState ==
    << maskX, yStatic, grainActive, grRow, grCol, grainIndex, sideToggle,
       finished, topHoleActive, holeRow, holeCol >>

\* C16: finished is sticky.  Once it is true, a stepAnimation call changes
\* none of maskX, yStatic, grainActive, grainIndex, sideToggle, finished, nor
\* the grain's or the hole's position (it only renders again), and finished
\* becomes false again only in a checkFlip that recognizes a flip, whose
\* startNewCycle leaves the reset state.
FinishedIsSticky ==
    [][finished =>
          /\ Tick => UNCHANGED simState
          /\ ~finished' =>
                 /\ pc = "checkFlip"
                 /\ (lastGravity' = 90) # topToBottom
                 /\ sinceFlipMs > FLIP_DEBOUNCE_MS
                 /\ topToBottom' = ~topToBottom
                 /\ FreshCycle']_vars

\* a finished cycle has just been rendered again: the step before left
\* lastStepMs at the end of the finish tone, this one at now
FinishedIsStickyWitness ==
    /\ finished
    /\ pc = "update"
    /\ sinceStepMs = 0
    /\ StaticCells = Cells
    /\ topFrame # << >>

\* C17: no grid access is out of bounds.  The grain and the hole are
\* always on a cell of the 8x8 grid, so the three defensive range tests
\* (before the settle write, in buildMaskY, in renderFrame) never fail;
\* orderRow / orderCol hold rows and columns of the grid and are read, by a
\* spawn, at an index in 0 .. 63; the cells a move tests, (row-1, col-1),
\* (row, col-1) and (row-1, col), are read only when they are on the grid.
IndicesInRange ==
    /\ grRow \in Idx /\ grCol \in Idx
    /\ holeRow \in Idx /\ holeCol \in Idx
    /\ InGrid(grRow, grCol)
    /\ InGrid(holeRow, holeCol)
    /\ grainIndex \in 0 .. OrderLen
    /\ (~grainActive /\ grainIndex < OrderLen) => grainIndex \in DOMAIN orderRow
    /\ DOMAIN orderRow = 0 .. 63 /\ DOMAIN orderCol = 0 .. 63
    /\ \A i \in 0 .. 63 : orderRow[i] \in Idx /\ orderCol[i] \in Idx
    /\ DOMAIN maskX = Idx /\ DOMAIN maskY = Idx /\ DOMAIN yStatic = Idx
    /\ \A r \in Idx : DOMAIN yStatic[r] = Idx
    /\ \A r \in Idx : maskX[r] \in 0 .. 255 /\ maskY[r] \in 0 .. 255
    /\ grainActive =>
           /\ CanFall(yStatic, grRow, grCol) => InGrid(grRow - 1, grCol - 1)
           /\ CanLeft(yStatic, grRow, grCol) => InGrid(grRow, grCol - 1)
           /\ CanRight(yStatic, grRow, grCol) => InGrid(grRow - 1, grCol)

\* grain and hole at the edges of the grid: the hole has stopped at the
\* corner (0,0) while the grain slides along row 0
IndicesInRangeWitness ==
    /\ grainActive
    /\ grRow = 0 /\ grCol = 6
    /\ ~topHoleActive
    /\ holeRow = 0 /\ holeCol = 0
    /\ pc = "timer"

\* the settled cells are closed towards row 0 and towards column 0
DownClosed(S) ==
    \A q \in S :
        /\ q[1] > 0 => << q[1] - 1, q[2] >> \in S
        /\ q[2] > 0 => << q[1], q[2] - 1 >> \in S

\* C18: yStatic is a staircase anchored at (0,0): below (row - 1) and left
\* (col - 1) of every settled cell the cell is settled too, because a grain
\* settles only where all three cells it could move to are settled or off
\* the grid.  So the neck cell (7,7) is settled only when all 64 cells are,
\* by the last grain.
StaticIsStaircase ==
    /\ DownClosed(StaticCells)
    /\ << NECK_ROW, NECK_COL >> \in StaticCells =>
           (StaticCells = Cells /\ grainIndex = OrderLen /\ finished)

\* 30 grains have settled: the staircase is uneven, (5,2) is settled and
\* its mirror cell (2,5) is not yet
StaticIsStaircaseWitness ==
    /\ grainActive
    /\ Cardinality(StaticCells) = 30
    /\ << 5, 2 >> \in StaticCells
    /\ << 2, 5 >> \notin StaticCells
    /\ << 0, 0 >> \in StaticCells

\* totalFrames of startNewCycle: the steps the selected duration is divided
\* into
StepBudget == OrderLen * FramesPerGrain

\* checkFlip has just recognized a flip
JustFlipped == pc = "timer" /\ sinceFlipMs = ToneDelayMs

\* C19: a cycle ends.  While the loop keeps running, every cycle reaches
\* finished unless a recognized flip restarts it first, and the
\* stepAnimation calls from the cycle's start up to the one that sets
\* finished number at most 640 = 64 * 10, the divisor of stepIntervalMs.
CycleTerminates ==
    /\ [][stepCalls' <= StepBudget /\ (finished' => stepCalls' <= StepBudget)]_vars
    /\ (pc # "setup") ~> (finished \/ JustFlipped)

\* a cycle has run to its end undisturbed, in 436 steps
CycleTerminatesWitness ==
    /\ finished
    /\ stepCalls = 436
    /\ StaticCells = Cells
    /\ pc = "update"
    /\ sinceStepMs = ToneDelayMs

\* the direction derived from the last gravity read differs from the
\* direction of the running cycle
DirectionDiffers == (lastGravity = 90) # topToBottom

\* the gravity values getGravity returns or keeps
Gravities == {0, 90, 180, 270}

\* with both angles inside the band [-25, 25] getGravity returns lastGravity
NeutralKeepsGravity ==
    \A x \in ACC_THRESHOLD_LOW .. ACC_THRESHOLD_HIGH :
        \A y \in ACC_THRESHOLD_LOW .. ACC_THRESHOLD_HIGH :
            \A last \in Gravities : getGravity(x, y, last) = last

\* C20: a flip that the debounce suppresses is deferred, not lost.  A
\* differing direction is left standing by checkFlip only within 800 ms of
\* the last recognized flip, and while the loop keeps running (each pass
\* taking time) it does not stand for ever: either a later reading agrees
\* again or checkFlip restarts the cycle with topToBottom the derived
\* direction.  A reading inside the neutral band returns lastGravity; it
\* restarts the cycle only if the direction derived from lastGravity
\* differed already, never by itself.
FlipIsDeferred ==
    /\ NeutralKeepsGravity
    /\ [][pc = "checkFlip" =>
             /\ DirectionDiffers' => sinceFlipMs <= FLIP_DEBOUNCE_MS
             /\ (lastGravity' = lastGravity /\ ~DirectionDiffers)
                    => UNCHANGED cycleState
             /\ topToBottom' # topToBottom => topToBottom' = (lastGravity' = 90)]_vars
    /\ (pc = "timer" /\ DirectionDiffers) ~> ~DirectionDiffers

\* a differing reading taken exactly 800 ms after the last flip has just
\* been ignored: the test is for more than 800 ms
FlipIsDeferredWitness ==
    /\ pc = "timer"
    /\ DirectionDiffers
    /\ sinceFlipMs = FLIP_DEBOUNCE_MS
    /\ ~finished

====
